---- MODULE Spec2Model ----
(***************************************************************************)
(* A model of kMeansClustering.ipynb run top to bottom: one HTTP GET, the  *)
(* XPath extraction of headlines and descriptions, the nested loop that    *)
(* builds the corpus `news`, TfidfVectorizer.fit_transform, KMeans.fit and *)
(* the "Top terms per cluster" report.                                     *)
(*                                                                         *)
(* Text is a sequence of one-character strings, so that `+` on Python      *)
(* strings, lower-casing and the vectorizer's token pattern are computed   *)
(* and not assumed.                                                        *)
(***************************************************************************)
EXTENDS Integers, Sequences, FiniteSets, TLC

(***************************************************************************)
(* Bounds of the model.                                                    *)
(***************************************************************************)
\* Articles on a page the GET may return.
MaxArticles == 4
\* Outcomes of the randomised k-means++ seeding that are told apart.
MaxSeeds == 2

(***************************************************************************)
(* Constants of the notebook.                                              *)
(***************************************************************************)
\* k = 15
k == 15
\* KMeans(..., max_iter=100)
max_iter == 100
\* KMeans(...) is built without n_init: the library default of 10 runs
n_init == 10
\* TfidfVectorizer(..., min_df=2)
min_df == 2
\* TfidfVectorizer(..., max_df=0.5), kept as the fraction MaxDfNum / MaxDfDen
MaxDfNum == 1
MaxDfDen == 2
\* order_centroids[i, :10]
TopTerms == 10

(***************************************************************************)
(* Characters and strings.                                                 *)
(***************************************************************************)
LowerCase ==
  << "a", "b", "c", "d", "e", "f", "g", "h", "i", "j", "k", "l", "m",
     "n", "o", "p", "q", "r", "s", "t", "u", "v", "w", "x", "y", "z" >>

UpperCase ==
  << "A", "B", "C", "D", "E", "F", "G", "H", "I", "J", "K", "L", "M",
     "N", "O", "P", "Q", "R", "S", "T", "U", "V", "W", "X", "Y", "Z" >>

Range(s) == { s[i] : i \in DOMAIN s }

UpperChars == Range(UpperCase)

WordChars == Range(LowerCase) \cup UpperChars

\* \w of the token pattern: here, the letters.
IsWordChar(c) == c \in WordChars

\* str.lower() on one character.
LowerChar(c) ==
  IF c \in UpperChars
  THEN LowerCase[CHOOSE i \in DOMAIN UpperCase : UpperCase[i] = c]
  ELSE c

\* str.lower(): the vectorizer's preprocessing (lowercase=True by default).
Lower(s) == [i \in DOMAIN s |-> LowerChar(s[i])]

\* Code point order on the lower-case letters.
Ord(c) == CHOOSE i \in DOMAIN LowerCase : LowerCase[i] = c

\* Python's order on strings: s < t.
RECURSIVE StrLess(_, _)
StrLess(s, t) ==
  IF t = << >> THEN FALSE
  ELSE IF s = << >> THEN TRUE
  ELSE IF Head(s) = Head(t) THEN StrLess(Tail(s), Tail(t))
  ELSE Ord(Head(s)) < Ord(Head(t))

(***************************************************************************)
(* The pages the server may answer with.  A page is the sequence, in       *)
(* document order, of the elements the two XPath queries can tell apart:   *)
(* the class of the enclosing div, the path below it and the text node.    *)
(***************************************************************************)
WrapperClass == "select_portal_module_wrapper"

ArticleLetter == << "p", "q", "r", "s", "u", "v", "w", "x" >>

Styles == { "compact", "spaced", "stopwords", "boilerplate" }

Kinds == { "both", "headline", "description", "restyled" }

\* The headline text of article i.
HeadlineText(style, i) ==
  CASE style = "compact" ->
         << "H", ArticleLetter[i], " ", "n", "i", "s", "t", " ",
            "g", ArticleLetter[i] >>
    [] style = "spaced" ->
         << "h", ArticleLetter[i], " ", "g", ArticleLetter[i], " " >>
    [] style = "stopwords" -> << "B", "e", " " >>
    [] OTHER -> << "n", "i", "s", "t", " " >>

\* The description text of article i.
DescriptionText(style, i) ==
  CASE style = "compact" ->
         << "d", ArticleLetter[i], " ", "a", "t", " ",
            "e", ArticleLetter[i], "." >>
    [] style = "spaced" ->
         << "d", ArticleLetter[i], " ", "e", ArticleLetter[i] >>
    [] style = "stopwords" -> << "a", "t" >>
    [] OTHER -> << "n", "e", "w", "s" >>

Element(cls, path, text) == [cls |-> cls, path |-> path, text |-> text]

\* The elements article i puts on the page.
ArticleElements(style, kind, i) ==
  LET cls == IF kind = "restyled" THEN "news_item" ELSE WrapperClass
      h == Element(cls, "a/strong", HeadlineText(style, i))
      d == Element(cls, "p", DescriptionText(style, i))
  IN CASE kind = "headline" -> << h >>
       [] kind = "description" -> << d >>
       [] OTHER -> << h, d >>

RECURSIVE PageOf(_, _, _)
PageOf(style, kinds, n) ==
  IF n = 0 THEN << >>
  ELSE PageOf(style, kinds, n - 1) \o ArticleElements(style, kinds[n], n)

\* Every body the GET may return; << >> is the empty body.
Pages ==
  UNION { { PageOf(style, kinds, n) :
              style \in Styles, kinds \in [1..n -> Kinds] } :
          n \in 0..MaxArticles }

\* The status codes told apart: success and a non-success status.
StatusCodes == { 200, 404 }

(***************************************************************************)
(* State.                                                                  *)
(***************************************************************************)
VARIABLES
  pc,                   \* the statement the run is at
  err,                  \* the uncaught exception, if any, and where it rose
  page,                 \* the Response of requests.get
  list_of_headlines,
  list_of_descriptions,
  news,
  h_idx,                \* position of `for each_headline` (1-based)
  d_idx,                \* position of `for each_description` (1-based)
  terms,                \* vectorizer.get_feature_names()
  X,                    \* the document-term matrix, a sequence of rows
  run,                  \* the k-means run of the fit, 1..n_init
  n_iter,               \* assign/update iterations done in this run
  labels_changed,       \* the last iteration changed some document's label
  converged,            \* the last iteration moved the centers by <= tol
  labels,               \* km.labels_, 0-based cluster of each document
  cluster_centers,      \* km.cluster_centers_, k rows of exact fractions
  order_centroids,
  i_cluster,            \* `i` of `for i in range(k)` (0-based)
  out                   \* the cluster lines printed so far

vars ==
  << pc, err, page, list_of_headlines, list_of_descriptions, news, h_idx,
     d_idx, terms, X, run, n_iter, labels_changed, converged, labels,
     cluster_centers, order_centroids, i_cluster, out >>

fetch_vars == << page >>
extract_vars == << list_of_headlines, list_of_descriptions >>
combine_vars == << news, h_idx, d_idx >>
vectorize_vars == << terms, X >>
kmeans_vars == << run, n_iter, labels_changed, converged, labels,
                  cluster_centers >>
report_vars == << order_centroids, i_cluster, out >>

NoError == [type |-> "none", at |-> "none"]

NoResponse == [status_code |-> 0, content |-> << >>]

Init ==
  /\ pc = "fetch"
  /\ err = NoError
  /\ page = NoResponse
  /\ list_of_headlines = << >>
  /\ list_of_descriptions = << >>
  /\ news = << >>
  /\ h_idx = 1
  /\ d_idx = 1
  /\ terms = << >>
  /\ X = << >>
  /\ run = 0
  /\ n_iter = 0
  /\ labels_changed = FALSE
  /\ converged = FALSE
  /\ labels = << >>
  /\ cluster_centers = << >>
  /\ order_centroids = << >>
  /\ i_cluster = 0
  /\ out = << >>

\* Raise, were the failing run started over instead of ended.
RaiseAndRetry(type) ==
  /\ err' = [type |-> type, at |-> pc]
  /\ pc' = "fetch"

\* An uncaught exception ends the run at the statement that raised it.
Raise(type) ==
  /\ err' = [type |-> type, at |-> pc]
  /\ pc' = "error"

(***************************************************************************)
(* Fetcher: page = requests.get(url).  A connection failure raises; any    *)
(* response, whatever its status, is returned (the notebook never calls    *)
(* raise_for_status nor reads status_code).                                *)
(***************************************************************************)
Fetch ==
  /\ pc = "fetch"
  /\ \/ /\ Raise("ConnectionError")
        /\ UNCHANGED page
     \/ /\ \E code \in StatusCodes, body \in Pages :
             page' = [status_code |-> code, content |-> body]
        /\ pc' = "extract"
        /\ UNCHANGED err
  /\ UNCHANGED << extract_vars, combine_vars, vectorize_vars, kmeans_vars,
                  report_vars >>

(***************************************************************************)
(* Extractor: tree = html.fromstring(page.content) and the two XPath       *)
(* queries.  lxml raises ParserError on an empty document.                 *)
(***************************************************************************)
\* tree.xpath('//div[@class="select_portal_module_wrapper"]/<path>/text()')
XPath(tree, path) ==
  LET hit(e) == e.cls = WrapperClass /\ e.path = path
      sel == SelectSeq(tree, hit)
  IN [i \in DOMAIN sel |-> sel[i].text]

Extract ==
  /\ pc = "extract"
  /\ IF page.content = << >>
     THEN /\ Raise("ParserError")
          /\ UNCHANGED extract_vars
     ELSE /\ list_of_headlines' = XPath(page.content, "a/strong")
          /\ list_of_descriptions' = XPath(page.content, "p")
          /\ pc' = "combine"
          /\ UNCHANGED err
  /\ UNCHANGED << fetch_vars, combine_vars, vectorize_vars, kmeans_vars,
                  report_vars >>

(***************************************************************************)
(* Combiner: news = [] and the nested for loops, one statement per step.   *)
(***************************************************************************)
\* Concat, with the description put first.
ConcatSwapped(each_headline, each_description) ==
  each_description \o each_headline

\* each_headline + each_description
Concat(each_headline, each_description) == each_headline \o each_description

\* InnerExhausted, one description too early.
InnerExhaustedEarly(j, descriptions) == j >= Len(descriptions)

\* The inner `for` has run out of descriptions.
InnerExhausted(j, descriptions) == j > Len(descriptions)

\* The outer `for` has run out of headlines.
OuterExhausted(i, headlines) == i > Len(headlines)

CombineStart ==
  /\ pc = "combine"
  /\ news' = << >>
  /\ h_idx' = 1
  /\ d_idx' = 1
  /\ pc' = "loop"
  /\ UNCHANGED << err, fetch_vars, extract_vars, vectorize_vars, kmeans_vars,
                  report_vars >>

\* news.append(each_headline+each_description)
AppendNews ==
  /\ pc = "loop"
  /\ ~OuterExhausted(h_idx, list_of_headlines)
  /\ ~InnerExhausted(d_idx, list_of_descriptions)
  /\ news' = Append(news, Concat(list_of_headlines[h_idx],
                                 list_of_descriptions[d_idx]))
  /\ d_idx' = d_idx + 1
  /\ UNCHANGED << pc, err, h_idx, fetch_vars, extract_vars, vectorize_vars,
                  kmeans_vars, report_vars >>

\* The inner loop ends; the outer loop takes the next headline.
NextHeadline ==
  /\ pc = "loop"
  /\ ~OuterExhausted(h_idx, list_of_headlines)
  /\ InnerExhausted(d_idx, list_of_descriptions)
  /\ h_idx' = h_idx + 1
  /\ d_idx' = 1
  /\ UNCHANGED << pc, err, news, fetch_vars, extract_vars, vectorize_vars,
                  kmeans_vars, report_vars >>

LoopExit ==
  /\ pc = "loop"
  /\ OuterExhausted(h_idx, list_of_headlines)
  /\ pc' = "print_last"
  /\ UNCHANGED << err, fetch_vars, extract_vars, combine_vars, vectorize_vars,
                  kmeans_vars, report_vars >>

\* HasLast, were the last item read without indexing (news[-1:]).
HasLastUnchecked(corpus) == TRUE

\* news[-1] exists.
HasLast(corpus) == Len(corpus) >= 1

\* print("Last item in list retrieved: %s" % news[-1])
PrintLast ==
  /\ pc = "print_last"
  /\ IF ~HasLast(news)
     THEN Raise("IndexError")
     ELSE /\ pc' = "vectorize"
          /\ UNCHANGED err
  /\ UNCHANGED << fetch_vars, extract_vars, combine_vars, vectorize_vars,
                  kmeans_vars, report_vars >>

(***************************************************************************)
(* Vectorizer: TfidfVectorizer(max_df=0.5, min_df=2, stop_words='english') *)
(* and X = vectorizer.fit_transform(news).                                 *)
(***************************************************************************)
\* The part of sklearn's ENGLISH_STOP_WORDS the pages can spell.
StopWords ==
  { << "a", "t" >>, << "b", "e" >>, << "h", "e" >>, << "a", "n" >>,
    << "o", "f" >>, << "t", "h", "e" >> }

\* re.findall(r"(?u)\b\w\w+\b", doc) from character i on: the maximal
\* runs of word characters that are at least two characters long, in
\* order.  `cur` is the run being read.
RECURSIVE FindTokens(_, _, _)
FindTokens(doc, i, cur) ==
  IF i > Len(doc) THEN (IF Len(cur) >= 2 THEN << cur >> ELSE << >>)
  ELSE IF IsWordChar(doc[i])
       THEN FindTokens(doc, i + 1, Append(cur, doc[i]))
       ELSE (IF Len(cur) >= 2 THEN << cur >> ELSE << >>)
              \o FindTokens(doc, i + 1, << >>)

Tokenize(doc) == FindTokens(doc, 1, << >>)

IsStopWord(token) == token \in StopWords

\* build_analyzer(): lower-case, tokenize, drop the stop words.
Analyze(doc) ==
  LET keep(token) == ~IsStopWord(token)
  IN SelectSeq(Tokenize(Lower(doc)), keep)

\* _count_vocab: the token sequence of each document.
Analysed(raw_documents) ==
  [d \in DOMAIN raw_documents |-> Analyze(raw_documents[d])]

\* _count_vocab: every term of the corpus.
Vocabulary(analysed) == UNION { Range(analysed[d]) : d \in DOMAIN analysed }

\* Occurrences of term in a token sequence.
Count(term, tokens) == Cardinality({ i \in DOMAIN tokens : tokens[i] = term })

\* Documents of the analysed corpus that hold the term.
DocFreq(term, analysed) ==
  Cardinality({ d \in DOMAIN analysed : term \in Range(analysed[d]) })

\* DfInRange, with the upper bound strict.
DfInRangeStrict(df, n_doc) ==
  /\ df >= min_df
  /\ df * MaxDfDen < MaxDfNum * n_doc

\* _limit_features: the mask (dfs >= low) & (dfs <= high), with
\* low = min_df and high = max_df * n_doc.
DfInRange(df, n_doc) ==
  /\ df >= min_df
  /\ df * MaxDfDen <= MaxDfNum * n_doc

\* _limit_features: the terms that pass the mask.
KeptTerms(analysed) ==
  { t \in Vocabulary(analysed) :
      DfInRange(DocFreq(t, analysed), Len(analysed)) }

\* max_doc_count < min_doc_count
MaxBelowMin(n_doc) == MaxDfNum * n_doc < min_df * MaxDfDen

\* The ValueError fit_transform raises, in the order of its checks, or
\* "none".
FitError(analysed, kept) ==
  IF Vocabulary(analysed) = {} THEN "empty vocabulary"
  ELSE IF MaxBelowMin(Len(analysed)) THEN "max_df < min_df"
  ELSE IF kept = {} THEN "no terms remain"
  ELSE "none"

\* _sort_features: the terms in increasing order, which is the order of
\* get_feature_names().
SortTerms(S) ==
  [p \in 1..Cardinality(S) |->
     CHOOSE t \in S : Cardinality({ u \in S : StrLess(u, t) }) = p - 1]

\* The weight of a term that occurs tf times in a document and in df of
\* the n_doc documents.  sklearn's weight is tf * (ln((1+n_doc)/(1+df)) + 1),
\* each row then scaled to unit length: a real number.  The integer
\* kept here is 0 exactly when the term is absent, grows with tf and
\* falls with df, as the real weight does.
TfIdfWeight(tf, df, n_doc) == tf * (n_doc + 1 - df)

\* The matrix: a row per document, a column per kept term.
Transform(analysed, names) ==
  [d \in DOMAIN analysed |->
     [t \in DOMAIN names |->
        TfIdfWeight(Count(names[t], analysed[d]),
                    DocFreq(names[t], analysed), Len(analysed))]]

\* X = vectorizer.fit_transform(news)
Vectorize ==
  /\ pc = "vectorize"
  /\ \E analysed \in { Analysed(news) } :
       \E kept \in { KeptTerms(analysed) } :
         IF FitError(analysed, kept) # "none"
         THEN /\ Raise("ValueError")
              /\ UNCHANGED vectorize_vars
         ELSE \E names \in { SortTerms(kept) } :
                /\ terms' = names
                /\ X' = Transform(analysed, names)
                /\ pc' = "cluster"
                /\ UNCHANGED err
  /\ UNCHANGED << fetch_vars, extract_vars, combine_vars, kmeans_vars,
                  report_vars >>

(***************************************************************************)
(* Clusterer: km = KMeans(n_clusters=k, init='k-means++', max_iter=100)    *)
(* and km.fit(X).  The fit makes n_init runs; a run repeats the            *)
(* assign/update iteration until the centers move by no more than the      *)
(* tolerance, at most max_iter times.  Which iteration that is depends on  *)
(* floating-point distances and on the random seeding, so the outcome of   *)
(* an iteration is a free choice here, except that an iteration that       *)
(* changes no label leaves every center where it was.                      *)
(***************************************************************************)
\* TooFewSamples, were only an empty matrix refused.
TooFewSamplesUnchecked(n_samples) == n_samples < 1

\* _check_fit_data: X.shape[0] < self.n_clusters
TooFewSamples(n_samples) == n_samples < k

\* LoopContinues, without the cap on the iterations (while True).
LoopUnbounded(iterations, stopped) == ~stopped

\* for i in range(max_iter): ... if shift <= tol: break
LoopContinues(iterations, stopped) == iterations < max_iter /\ ~stopped

\* The squared euclidean distance of two rows over their first n columns.
RECURSIVE SquaredDistanceTo(_, _, _)
SquaredDistanceTo(x, y, n) ==
  IF n = 0 THEN 0
  ELSE (x[n] - y[n]) * (x[n] - y[n]) + SquaredDistanceTo(x, y, n - 1)

SquaredDistance(x, y) == SquaredDistanceTo(x, y, Len(x))

\* The rows k-means++ seeds the clusters with: k of the documents, drawn
\* at random.  The seedings told apart start at document seed + 1.
SeedRows(seed, rows) ==
  [c \in 1..k |-> rows[((seed + c - 1) % Len(rows)) + 1]]

\* The first center among the nearest, given the distance to each.
Nearest(dist) ==
  CHOOSE c \in DOMAIN dist :
    \A c2 \in DOMAIN dist :
      dist[c] < dist[c2] \/ (dist[c] = dist[c2] /\ c <= c2)

TheOne(S) == CHOOSE x \in S : TRUE

\* _labels_inertia: each document goes to the nearest center, the first
\* of them on a tie; labels are 0-based.
AssignLabels(rows, centers) ==
  [d \in DOMAIN rows |->
     TheOne({ Nearest(dist) :
                dist \in { [c \in DOMAIN centers |->
                              SquaredDistance(rows[d], centers[c])] } }) - 1]

\* The sum of column t over the documents, among the first n, of label c.
RECURSIVE SumColumn(_, _, _, _, _)
SumColumn(rows, assigned, c, t, n) ==
  IF n = 0 THEN 0
  ELSE (IF assigned[n] = c THEN rows[n][t] ELSE 0)
         + SumColumn(rows, assigned, c, t, n - 1)

\* _centers: the mean of each cluster's rows, kept as the exact fraction
\* num / den.  A cluster left without documents keeps its seed row.
UpdateCenters(rows, assigned, centers) ==
  [c \in DOMAIN centers |->
     [t \in DOMAIN centers[c] |->
        IF \A d \in DOMAIN rows : assigned[d] # c - 1
        THEN [num |-> centers[c][t], den |-> 1]
        ELSE [num |-> SumColumn(rows, assigned, c - 1, t, Len(rows)),
              den |-> Cardinality({ d \in DOMAIN rows :
                                      assigned[d] = c - 1 })]]]

Fit ==
  /\ pc = "cluster"
  /\ IF TooFewSamples(Len(X))
     THEN /\ Raise("ValueError")
          /\ UNCHANGED kmeans_vars
     ELSE /\ pc' = "kmeans"
          /\ run' = 1
          /\ n_iter' = 0
          /\ labels_changed' = FALSE
          /\ converged' = FALSE
          /\ UNCHANGED << err, labels, cluster_centers >>
  /\ UNCHANGED << fetch_vars, extract_vars, combine_vars, vectorize_vars,
                  report_vars >>

\* One assign/update iteration of the current run.
KMeansIterate ==
  /\ pc = "kmeans"
  /\ LoopContinues(n_iter, converged)
  /\ n_iter' = n_iter + 1
  /\ \E changed \in (IF n_iter = 0 THEN {TRUE} ELSE BOOLEAN),
        within_tol \in BOOLEAN :
       /\ ~changed => within_tol
       /\ labels_changed' = changed
       /\ converged' = within_tol
  /\ UNCHANGED << pc, err, run, labels, cluster_centers, fetch_vars,
                  extract_vars, combine_vars, vectorize_vars, report_vars >>

\* A run has ended: its iteration state is dropped and the fit keeps the
\* run's labels and centers if it is the best so far.
KMeansRunEnd ==
  /\ pc = "kmeans"
  /\ ~LoopContinues(n_iter, converged)
  /\ n_iter' = 0
  /\ labels_changed' = FALSE
  /\ converged' = FALSE
  /\ pc' = "kmeans_keep_best"
  /\ UNCHANGED << err, run, labels, cluster_centers, fetch_vars, extract_vars,
                  combine_vars, vectorize_vars, report_vars >>

\* for it in range(n_init): another run starts.
KMeansNextRun ==
  /\ pc = "kmeans_keep_best"
  /\ run < n_init
  /\ run' = run + 1
  /\ pc' = "kmeans"
  /\ UNCHANGED << err, n_iter, labels_changed, converged, labels,
                  cluster_centers, fetch_vars, extract_vars, combine_vars,
                  vectorize_vars, report_vars >>

\* The last run has ended: the fit returns with the labels and the centers
\* of the best run.  They are the assignment of the documents to the
\* nearest of k seed documents and the means of the clusters so formed.
KMeansDone ==
  /\ pc = "kmeans_keep_best"
  /\ run >= n_init
  /\ \E seed \in 0..(MaxSeeds - 1) :
       \E init \in { SeedRows(seed, X) } :
         \E assigned \in { AssignLabels(X, init) } :
           /\ labels' = assigned
           /\ cluster_centers' = UpdateCenters(X, assigned, init)
  /\ pc' = "report"
  /\ UNCHANGED << err, run, n_iter, labels_changed, converged, fetch_vars,
                  extract_vars, combine_vars, vectorize_vars, report_vars >>

(***************************************************************************)
(* Report: order_centroids = km.cluster_centers_.argsort()[:, ::-1] and    *)
(* the loop that prints, for each cluster, the terms at its first ten      *)
(* indices.  Indices are 1-based here; the cluster printed for i is i + 1. *)
(***************************************************************************)
\* a < b on fractions with positive denominators.
FracLess(a, b) == a.num * b.den < b.num * a.den

\* Index a comes before index b in row.argsort().  numpy's default sort is
\* not stable: on equal weights either order may come out.
Before(row, ties, a, b) ==
  /\ a # b
  /\ \/ FracLess(row[a], row[b])
     \/ /\ ~FracLess(row[b], row[a])
        /\ IF ties = "first" THEN a < b ELSE a > b

\* row.argsort(): the indices in non-decreasing order of weight.
ArgSort(row, ties) ==
  [p \in DOMAIN row |->
     CHOOSE a \in DOMAIN row :
       Cardinality({ b \in DOMAIN row : Before(row, ties, b, a) }) = p - 1]

\* Reversed, with the [::-1] forgotten.
NotReversed(s) == s

\* s[::-1]
Reversed(s) == [j \in DOMAIN s |-> s[Len(s) + 1 - j]]

\* order_centroids[i, :10]
TopSlice(s) == SubSeq(s, 1, IF Len(s) < TopTerms THEN Len(s) ELSE TopTerms)

\* The line printed for cluster i (0-based): "Cluster i+1:" and the terms.
ClusterLine(i, order, names) ==
  LET top == TopSlice(order[i + 1])
  IN [cluster |-> i + 1, terms |-> [j \in DOMAIN top |-> names[top[j]]]]

\* order_centroids = km.cluster_centers_.argsort()[:, ::-1]
ReportStart ==
  /\ pc = "report"
  /\ \E ties \in { "first", "last" } :
       \E ascending \in { [c \in DOMAIN cluster_centers |->
                             ArgSort(cluster_centers[c], ties)] } :
         order_centroids' =
           [c \in DOMAIN ascending |-> Reversed(ascending[c])]
  /\ i_cluster' = 0
  /\ pc' = "report_loop"
  /\ UNCHANGED << err, out, fetch_vars, extract_vars, combine_vars,
                  vectorize_vars, kmeans_vars >>

ReportLine ==
  /\ pc = "report_loop"
  /\ i_cluster < k
  /\ out' = Append(out, ClusterLine(i_cluster, order_centroids, terms))
  /\ i_cluster' = i_cluster + 1
  /\ UNCHANGED << pc, err, order_centroids, fetch_vars, extract_vars,
                  combine_vars, vectorize_vars, kmeans_vars >>

ReportDone ==
  /\ pc = "report_loop"
  /\ i_cluster >= k
  /\ pc' = "done"
  /\ UNCHANGED << err, fetch_vars, extract_vars, combine_vars, vectorize_vars,
                  kmeans_vars, report_vars >>

(***************************************************************************)
(* The run.                                                                *)
(***************************************************************************)
\* Every statement after the GET: it runs as soon as the one before it ends.
AfterFetch ==
  \/ Extract
  \/ CombineStart
  \/ AppendNews
  \/ NextHeadline
  \/ LoopExit
  \/ PrintLast
  \/ Vectorize
  \/ Fit
  \/ KMeansIterate
  \/ KMeansRunEnd
  \/ KMeansNextRun
  \/ KMeansDone
  \/ ReportStart
  \/ ReportLine
  \/ ReportDone

Next == Fetch \/ AfterFetch

Spec == Init /\ [][Next]_vars

\* The notebook is single-threaded and nothing but the GET (no timeout is
\* set) can block: once the GET has returned, each statement is executed.
FairSpec == Spec /\ WF_vars(AfterFetch)

(***************************************************************************)
(* Vocabulary of the properties.                                           *)
(***************************************************************************)
\* The statement the run has reached: where it is, or where it failed.
At == IF pc = "error" THEN err.at ELSE pc

\* The stage a statement belongs to.
Stage(p) ==
  CASE p = "fetch" -> 1
    [] p = "extract" -> 2
    [] p \in { "combine", "loop", "print_last" } -> 3
    [] p = "vectorize" -> 4
    [] p \in { "cluster", "kmeans", "kmeans_keep_best" } -> 5
    [] p \in { "report", "report_loop" } -> 6
    [] OTHER -> 7

\* The first statement of each stage.
StageEntries == { "fetch", "extract", "combine", "vectorize", "cluster",
                  "report" }

\* Number of headlines and of descriptions extracted.
N == Len(list_of_headlines)
M == Len(list_of_descriptions)

\* The two queries have been evaluated.
Extracted == Stage(At) >= 3

\* The combination loop has finished.
Combined == At = "print_last" \/ Stage(At) >= 4

\* The GET ended in a network error or in a non-success status.
FetchFailed ==
  \/ err.type = "ConnectionError"
  \/ page.status_code \notin { 0, 200 }

IsPrefix(s, t) == Len(s) <= Len(t) /\ SubSeq(t, 1, Len(s)) = s

(***************************************************************************)
(* C1.  When the combination loop has finished, news holds exactly N * M   *)
(* documents, for every N and M, 0 included.                               *)
(***************************************************************************)
C1_CrossProductCount == Combined => Len(news) = N * M

\* The loop has finished on lists of different lengths, both above one.
C1_Witness == Combined /\ N = 3 /\ M = 2 /\ Len(news) = 6

(***************************************************************************)
(* C2.  As the notebook documents the step: each headline is merged with   *)
(* its own description, so with as many headlines as descriptions news     *)
(* has N entries and entry i is headline i followed by description i.      *)
(***************************************************************************)
C2_PositionalPairing ==
  (Combined /\ N = M) =>
    /\ Len(news) = N
    /\ \A i \in 1..N :
         news[i] = list_of_headlines[i] \o list_of_descriptions[i]

(***************************************************************************)
(* C3.  Whenever the GET ends in a network error or returns a non-success  *)
(* status, the run has failed in the Fetcher: no later statement is        *)
(* reached with the response.                                              *)
(***************************************************************************)
C3_FetchFailureStopsRun ==
  FetchFailed => (pc = "error" /\ err.at = "fetch")

(***************************************************************************)
(* C4.  As claimed: when both queries match nothing, news is empty and a   *)
(* run that fails does so in the Vectorizer.                               *)
(***************************************************************************)
C4_FailsInVectorizer ==
  (Extracted /\ N = 0 /\ M = 0) =>
    /\ news = << >>
    /\ pc = "error" => err.at = "vectorize"

(***************************************************************************)
(* C4, amended.  When both queries match nothing, the extraction and the   *)
(* loop raise nothing and news is empty, and the run fails before the      *)
(* Vectorizer: the print of news[-1] raises IndexError.                    *)
(***************************************************************************)
C4_FailsAtPrintLast ==
  (Extracted /\ N = 0 /\ M = 0) =>
    /\ news = << >>
    /\ Stage(At) = 3
    /\ pc = "error" => (err.type = "IndexError" /\ err.at = "print_last")

\* A run on a page the queries match nothing of has failed.
C4_Witness ==
  /\ pc = "error"
  /\ Extracted
  /\ page.content # << >>
  /\ N = 0
  /\ M = 0

(***************************************************************************)
(* C5.  The vocabulary the vectorizer ends with is exactly the set of the  *)
(* terms of the corpus that are no stop word, occur in at least 2          *)
(* documents and in at most half of them; and when the vectorizer raises   *)
(* instead, the corpus has no such term.  A term is a maximal run of two   *)
(* or more word characters of a document, in lower case.                   *)
(***************************************************************************)
\* The terms of a document, read off its characters.
TermsOf(doc) ==
  LET L == Len(doc)
      starts == { a \in 1..L :
                    /\ IsWordChar(doc[a])
                    /\ a = 1 \/ ~IsWordChar(doc[a - 1]) }
      end(a) == CHOOSE b \in a..L :
                  /\ \A i \in a..b : IsWordChar(doc[i])
                  /\ b = L \/ ~IsWordChar(doc[b + 1])
  IN { Lower(SubSeq(doc, a, end(a))) : a \in { a \in starts : end(a) > a } }

\* The terms the configuration admits to the vocabulary.
AdmittedTerms ==
  LET D == Len(news)
      of == [d \in DOMAIN news |-> TermsOf(news[d])]
      df(t) == Cardinality({ d \in DOMAIN news : t \in of[d] })
  IN { t \in UNION { of[d] : d \in DOMAIN news } :
         /\ t \notin StopWords
         /\ df(t) >= 2
         /\ 2 * df(t) <= D }

C5_VocabularyFiltering ==
  /\ pc = "cluster" => Range(terms) = AdmittedTerms
  /\ (pc = "error" /\ err.at = "vectorize") => AdmittedTerms = {}

\* The vectorizer has kept some terms and dropped a stop word, a term of a
\* single document and a term of more than half the documents.
C5_Witness ==
  /\ pc = "cluster"
  /\ terms # << >>
  /\ LET of == [d \in DOMAIN news |-> TermsOf(news[d])]
         all == UNION { of[d] : d \in DOMAIN news }
         df(t) == Cardinality({ d \in DOMAIN news : t \in of[d] })
     IN /\ \E t \in all : t \in StopWords
        /\ \E t \in all : t \notin StopWords /\ df(t) = 1
        /\ \E t \in all : t \notin StopWords /\ 2 * df(t) > Len(news)

(***************************************************************************)
(* C6.  Whenever fewer than k documents reach the Clusterer, the run is    *)
(* in the error state the fit raised: no k-means run or iteration was      *)
(* started and no cluster line is printed.                                 *)
(***************************************************************************)
\* The fit has been called on the matrix.
FitCalled == Stage(At) >= 5 /\ pc # "cluster"

C6_TooSmallCorpus ==
  (FitCalled /\ Len(X) < k) =>
    /\ pc = "error"
    /\ err.type = "ValueError"
    /\ err.at = "cluster"
    /\ run = 0
    /\ n_iter = 0
    /\ labels = << >>
    /\ out = << >>

\* The fit has refused a matrix of some, but fewer than k, documents.
C6_Witness ==
  /\ pc = "error"
  /\ err.at = "cluster"
  /\ Len(X) >= 1
  /\ Len(X) < k

(***************************************************************************)
(* C7.  The report prints the cluster lines 1, 2, ... in increasing order, *)
(* k of them when it ends.  The line of cluster i lists min(10, number of  *)
(* terms) distinct terms, in non-increasing order of their weight in       *)
(* centroid i, and no term left out weighs strictly more in centroid i     *)
(* than a listed one.                                                      *)
(***************************************************************************)
\* The weight of a term of the vocabulary in centroid c.
CentroidWeight(c, term) ==
  cluster_centers[c][CHOOSE t \in DOMAIN terms : terms[t] = term]

\* Centroid weight a is strictly greater than b.
Heavier(a, b) == a.num * b.den > b.num * a.den

LineIsTopTerms(line) ==
  LET c == line.cluster
      listed == Range(line.terms)
      w(term) == CentroidWeight(c, term)
  IN /\ Len(line.terms) = IF Len(terms) < 10 THEN Len(terms) ELSE 10
     /\ listed \subseteq Range(terms)
     /\ Cardinality(listed) = Len(line.terms)
     /\ \A a, b \in DOMAIN line.terms :
          a < b => ~Heavier(w(line.terms[b]), w(line.terms[a]))
     /\ \A u \in Range(terms) \ listed :
          \A l \in listed : ~Heavier(w(u), w(l))

C7_Report ==
  /\ \A j \in DOMAIN out : out[j].cluster = j /\ LineIsTopTerms(out[j])
  /\ Len(out) <= k
  /\ pc = "done" => Len(out) = k
  /\ Len(out) > 0 => Stage(At) >= 6

\* The report has ended on a vocabulary of more than ten terms: every line
\* leaves some terms out.
C7_Witness ==
  /\ pc = "done"
  /\ Len(out) = k
  /\ Len(terms) > 10

(***************************************************************************)
(* C8.  Every step of a run stays in its stage or moves to the next one,   *)
(* the first statement of a stage is reached only from the stage before    *)
(* it, an exception ends the run at the statement that raised it, and      *)
(* nothing is executed after an error or after the end of the report.      *)
(***************************************************************************)
StageStep ==
  /\ pc \notin { "error", "done" }
  /\ IF pc' = "error"
     THEN err'.at = pc /\ err'.type # "none"
     ELSE /\ err' = NoError
          /\ Stage(pc') \in { Stage(pc), Stage(pc) + 1 }
          /\ pc' \in StageEntries => Stage(pc') = Stage(pc) + 1
          /\ pc' = "done" => pc = "report_loop"

C8_StageOrdering == [][StageStep]_vars

\* A run that went through the first three stages and failed in the fourth.
C8_Witness ==
  /\ pc = "error"
  /\ err.at = "vectorize"
  /\ news # << >>
  /\ out = << >>

(***************************************************************************)
(* C9.  The corpus is headline-major: the document at 0-based index        *)
(* i * M + j is headline i followed by description j, with nothing in      *)
(* between.  A step only ever appends to news, and once extracted the two  *)
(* lists are never changed.                                                *)
(***************************************************************************)
\* The document the claim puts at 1-based position p of the corpus.
HeadlineMajor(p) ==
  list_of_headlines[((p - 1) \div M) + 1]
    \o list_of_descriptions[((p - 1) % M) + 1]

CorpusInOrder ==
  /\ Len(news) <= N * M
  /\ \A p \in DOMAIN news : news[p] = HeadlineMajor(p)

GrowsAtTheEnd ==
  /\ IsPrefix(news, news')
  /\ Len(news') <= Len(news) + 1
  /\ pc # "extract" =>
       UNCHANGED << list_of_headlines, list_of_descriptions >>

C9_CorpusOrder == [](CorpusInOrder) /\ [][GrowsAtTheEnd]_vars

\* The loop is inside its second headline, past the first description.
C9_Witness ==
  /\ pc = "loop"
  /\ N >= 2
  /\ M >= 2
  /\ h_idx = 2
  /\ d_idx = 2
  /\ Len(news) = M + 1

(***************************************************************************)
(* C10.  A k-means run never goes beyond max_iter = 100 iterations and the *)
(* fit never beyond n_init runs; a run whose last iteration changed no     *)
(* label makes no further iteration; and once the GET has returned, the    *)
(* run reaches the end of the report or an error.                          *)
(***************************************************************************)
IterationsBounded == n_iter <= 100 /\ run <= 10

StopsWhenStable ==
  (pc = "kmeans" /\ n_iter >= 1 /\ ~labels_changed) =>
    (pc' = "kmeans_keep_best" /\ n_iter' = 0)

Terminated == pc \in { "done", "error" }

C10_BoundedAndTerminates ==
  /\ [](IterationsBounded)
  /\ [][StopsWhenStable]_vars
  /\ (pc # "fetch") ~> Terminated

\* A run that the iteration cap, not convergence, has stopped.
C10_Witness ==
  /\ pc = "kmeans"
  /\ n_iter = 100
  /\ labels_changed
  /\ ~converged

====
